---- MODULE Spec2Model ----
(***************************************************************************)
(* Model of smart_arkitekt.Orchestrator (src/smart_arkitekt/orchestrator.py) *)
(* and of the four device classes it drives.  Every device method emits    *)
(* its events through the one emit callback the devices and the            *)
(* orchestrator share, so the variable events is the complete, ordered     *)
(* trace of a run: every device-facade call and every arkitekt.* event.    *)
(***************************************************************************)
EXTENDS Integers, Sequences, FiniteSets

\* ------------------------------------------------------------------ bounds
MaxProtocols == 2
MaxSlides == 2
MaxWashLoops == 2

\* ------------------------------------------------- configuration of a run
\* Orchestrator.__init__ defaults
pickup_slot == 1
ot_slot == 1
dropoff_slot == 1
DefaultProtocols == <<"Receptor42", "Receptor0815">>

\* Protocol names a run may be configured with (distinct, in this order).
ProtocolUniverse == <<"Receptor42", "Receptor0815", "TestProtocol", "Receptor7">>

\* The protocols argument: the empty list or a list of 1..MaxProtocols names.
ProtocolArgs ==
    {SubSeq(ProtocolUniverse, 1, n) : n \in 0..MaxProtocols}

\* The slide_ids argument of run: every list of at most MaxSlides ids, up to
\* renaming of the ids (the code only copies ids into payloads): the first id
\* is 1 and each later id is an earlier one or the next unused number
\* (s[i] is at most one more than the number of distinct ids before it).  Lists
\* with repeated ids are included.
SlideIdLists ==
    UNION {{s \in [1..n -> 1..n] :
                \A i \in 1..n :
                    s[i] <= 1 + Cardinality({s[j] : j \in 1..(i-1)})}
           : n \in 0..MaxSlides}

\* max_wash_loops is an unvalidated int: negative values are accepted.
WashLoopArgs == (-1)..MaxWashLoops

\* ------------------------------------------------------------- models.py
None == <<>>
Some(b) == <<b>>

Slide(id) ==
    [id |-> id, loop_count |-> 0, is_ok |-> None,
     image_analysis_complete |-> FALSE]

VARIABLES
    protocols_arg,     \* the protocols argument of Orchestrator.__init__
    protocols,         \* Orchestrator.protocols
    slide_ids,         \* the argument of run
    max_wash_loops,    \* Orchestrator.max_wash_loops
    current_protocol,  \* Opentrons.current_protocol
    pc,                \* position of run in the code
    protocol_index,    \* index of the enumerate loop over protocols (0-based)
    slide_index,       \* position of the loop over slide_ids (1-based)
    slide,             \* the Slide of the pipeline invocation in progress
    results,           \* values microscope.evaluate returned to this invocation
    events,            \* everything passed to emit, in order
    raised,            \* the exception that has propagated out of run, if any
    evaluations,       \* values microscope.evaluate returned during this run
    first_run          \* the events and evaluations of an earlier, equal run

vars == <<protocols_arg, protocols, slide_ids, max_wash_loops,
          current_protocol, pc, protocol_index, slide_index, slide, results,
          events, raised, evaluations, first_run>>

config == <<protocols_arg, protocols, slide_ids, max_wash_loops>>

replay == <<evaluations, first_run>>

\* ---------------------------------------------------------- robot_arm.py
move_start_position == <<[name |-> "robot.move_start"]>>

move_pickup_position(slot) == <<[name |-> "robot.move_pickup", slot |-> slot]>>

close_gripper == <<[name |-> "robot.close_gripper"]>>

\* Mutant: the gripper is not opened.
open_gripper_missing == <<>>

open_gripper == <<[name |-> "robot.open_gripper"]>>

move_from_rack_to_opentrons(slide_id, opentrons_slot) ==
    <<[name |-> "robot.move_rack_to_opentrons", slide |-> slide_id,
       opentrons_slot |-> opentrons_slot]>>

move_from_opentrons_to_microscope(slide_id, opentrons_slot) ==
    <<[name |-> "robot.move_opentrons_to_microscope", slide |-> slide_id,
       opentrons_slot |-> opentrons_slot]>>

move_from_microscope_to_opentrons(slide_id, opentrons_slot) ==
    <<[name |-> "robot.move_microscope_to_opentrons", slide |-> slide_id,
       opentrons_slot |-> opentrons_slot]>>

move_from_microscope_to_image_processor(slide_id) ==
    <<[name |-> "robot.move_microscope_to_image_processor", slide |-> slide_id]>>

move_from_image_processor_to_dropoff(slide_id, slot) ==
    <<[name |-> "robot.move_image_processor_to_dropoff", slide |-> slide_id,
       dropoff_slot |-> slot]>>

move_from_microscope_to_dropoff(slide_id, slot) ==
    <<[name |-> "robot.move_microscope_to_dropoff", slide |-> slide_id,
       dropoff_slot |-> slot]>>

move_from_idle_to_opentrons(slide_id, opentrons_slot) ==
    <<[name |-> "robot.move_idle_to_opentrons", slide |-> slide_id,
       opentrons_slot |-> opentrons_slot]>>

move_from_idle_to_microscope(slide_id) ==
    <<[name |-> "robot.move_idle_to_microscope", slide |-> slide_id]>>

\* Mutant: the arm is not parked.
move_safety_missing == <<>>

move_safety == <<[name |-> "robot.safety"]>>

\* ---------------------------------------------------------- opentrons.py
\* protocol or self.current_protocol: an empty name is falsy.
run_staining_protocol(slide_id, slot, protocol) ==
    <<[name |-> "opentrons.stain", slide |-> slide_id, slot |-> slot,
       protocol |-> IF protocol # "" THEN protocol ELSE current_protocol]>>

run_washing_protocol(slide_id, slot) ==
    <<[name |-> "opentrons.wash", slide |-> slide_id, slot |-> slot,
       protocol |-> current_protocol]>>

\* Mutant: nothing is emitted when the protocol is the current one already.
set_protocol_if_changed(protocol) ==
    IF current_protocol = protocol THEN <<>>
    ELSE <<[name |-> "opentrons.protocol_set", protocol |-> protocol]>>

\* The event of set_protocol; the assignment to current_protocol is in the
\* action that calls it.
set_protocol(protocol) ==
    <<[name |-> "opentrons.protocol_set", protocol |-> protocol]>>

\* --------------------------------------------------------- microscope.py
\* Mutant: the microscope is not moved to its safety position.
safety_missing == <<>>

safety == <<[name |-> "microscope.safety"]>>

\* The event of evaluate; its return value is an input of the Evaluate action.
evaluate(slide_id) == <<[name |-> "microscope.evaluate", slide |-> slide_id]>>

scan_slide(slide_id) == <<[name |-> "microscope.scan", slide |-> slide_id]>>

\* ---------------------------------------------------- image_processor.py
\* What the analyses compute is random in the code (random.uniform,
\* random.random, random.randint, time.time) and never read by the
\* orchestrator: an outcome is the triple of values one call of process_slide
\* draws (the antibody results, the cancer results, the clock).  Fractions
\* are in percent.
AnalyzerOutcomes ==
    { [antibody |-> [antibody_coverage |-> 90, staining_intensity |-> 100,
                     uniformity_score |-> 90, background_noise |-> 30],
       cancer |-> [cancer_detected |-> TRUE, confidence_score |-> 99,
                   cell_count |-> 150, malignancy_grade |-> "high",
                   tumor_area_percentage |-> 45],
       timestamp |-> 2000] }

\* Each method that returns a value is a record: what it emits, what it returns.
analyze_antibodies(slide_id, drawn) ==
    [emitted |-> <<[name |-> "image_processor.analyze_antibodies",
                    slide |-> slide_id],
                   [name |-> "image_processor.antibody_results",
                    slide |-> slide_id, results |-> drawn]>>,
     result |-> drawn]

identify_cancer(slide_id, drawn) ==
    [emitted |-> <<[name |-> "image_processor.identify_cancer",
                    slide |-> slide_id],
                   [name |-> "image_processor.cancer_results",
                    slide |-> slide_id, results |-> drawn]>>,
     result |-> drawn]

generate_report(slide_id, antibody_results, cancer_results, now) ==
    LET antibody_score ==
            (antibody_results.antibody_coverage * 4
             + antibody_results.staining_intensity * 3
             + antibody_results.uniformity_score * 3) \div 10
        report ==
            [slide_id |-> slide_id,
             antibody_analysis |-> antibody_results,
             cancer_analysis |-> cancer_results,
             overall_quality_score |-> antibody_score,
             processing_timestamp |-> now,
             status |-> "complete"]
    IN  [emitted |-> <<[name |-> "image_processor.generate_report",
                        slide |-> slide_id],
                       [name |-> "image_processor.report_complete",
                        slide |-> slide_id, report |-> report]>>,
         result |-> report]

\* Mutant: process_slide returns the antibody results, not the report.
process_slide_wrong_return(slide_id, outcome) ==
    LET antibody_results == analyze_antibodies(slide_id, outcome.antibody)
        cancer_results == identify_cancer(slide_id, outcome.cancer)
        report == generate_report(slide_id, antibody_results.result,
                                  cancer_results.result, outcome.timestamp)
    IN  [emitted |-> <<[name |-> "image_processor.start_processing",
                        slide |-> slide_id]>>
                     \o antibody_results.emitted
                     \o cancer_results.emitted
                     \o report.emitted
                     \o <<[name |-> "image_processor.processing_complete",
                           slide |-> slide_id]>>,
         result |-> antibody_results.result]

process_slide(slide_id, outcome) ==
    LET antibody_results == analyze_antibodies(slide_id, outcome.antibody)
        cancer_results == identify_cancer(slide_id, outcome.cancer)
        report == generate_report(slide_id, antibody_results.result,
                                  cancer_results.result, outcome.timestamp)
    IN  [emitted |-> <<[name |-> "image_processor.start_processing",
                        slide |-> slide_id]>>
                     \o antibody_results.emitted
                     \o cancer_results.emitted
                     \o report.emitted
                     \o <<[name |-> "image_processor.processing_complete",
                           slide |-> slide_id]>>,
         result |-> report.result]

\* ------------------------------------------------------- orchestrator.py
\* Mutant: every iteration works with the first protocol.
protocol_at_first(index) == protocols[1]

\* The protocol of the enumerate loop's current iteration.
protocol_at(index) == protocols[index + 1]

\* Mutant: the first protocol, not the last, is taken for the final one.
is_final_protocol_first(index) == index = 0

\* protocol_index == len(self.protocols) - 1
is_final_protocol(index) == index = Len(protocols) - 1

\* Mutants of the budget test: fails to stop at the budget (>), stops one
\* wash early.
max_washes_exceeded_strict(s) == s.loop_count > max_wash_loops

max_washes_exceeded_early(s) == s.loop_count + 1 >= max_wash_loops

\* slide.loop_count >= self.max_wash_loops
max_washes_exceeded(s) == s.loop_count >= max_wash_loops

\* slide.is_ok = <value returned by evaluate>
evaluated(s, ok) == [s EXCEPT !.is_ok = Some(ok)]

\* Mutants of the increment: counts a wash twice; forgets the evaluation.
washed_twice(s) == [s EXCEPT !.loop_count = @ + 2]

washed_reset(s) == [s EXCEPT !.loop_count = @ + 1, !.is_ok = None]

\* slide.loop_count += 1
washed(s) == [s EXCEPT !.loop_count = @ + 1]

\* Mutant: the slide is not picked up.
_pickup_slide_to_opentrons_skipped(s) == <<>>

_pickup_slide_to_opentrons(s) ==
    move_start_position
    \o move_pickup_position(pickup_slot)
    \o close_gripper
    \o move_from_rack_to_opentrons(s.id, ot_slot)
    \o open_gripper
    \o move_safety

\* Mutant: the slide is left in the Opentrons.
_return_slide_to_rack_skipped(s) == <<>>

_return_slide_to_rack(s) ==
    move_from_idle_to_opentrons(s.id, ot_slot)
    \o close_gripper
    \o move_start_position
    \o open_gripper
    \o move_safety

\* The head of the while loop of _quality_evaluation_loop, up to the call of
\* evaluate: the slide goes from the Opentrons to the microscope.
_quality_evaluation_loop_move(s) ==
    move_from_idle_to_opentrons(s.id, ot_slot)
    \o close_gripper
    \o safety
    \o move_from_opentrons_to_microscope(s.id, ot_slot)
    \o open_gripper
    \o move_safety

_complete_slide_processing(s, outcome) ==
    LET analysis_report == process_slide(s.id, outcome)
    IN  scan_slide(s.id)
        \o safety
        \o move_from_idle_to_microscope(s.id)
        \o close_gripper
        \o move_from_microscope_to_image_processor(s.id)
        \o open_gripper
        \o move_safety
        \o analysis_report.emitted
        \o close_gripper
        \o move_from_image_processor_to_dropoff(s.id, dropoff_slot)
        \o open_gripper
        \o move_safety
        \o <<[name |-> "arkitekt.slide_complete", slide |-> s.id,
              loops |-> s.loop_count, analysis |-> analysis_report.result]>>

\* Mutant: the slide_failed event is not emitted.
_handle_failed_slide_silent(s) ==
    safety
    \o move_from_idle_to_microscope(s.id)
    \o close_gripper
    \o move_from_microscope_to_dropoff(s.id, dropoff_slot)
    \o open_gripper
    \o move_safety

_handle_failed_slide(s) ==
    <<[name |-> "arkitekt.slide_failed", slide |-> s.id,
       loops |-> s.loop_count, reason |-> "max_wash_loops_exceeded"]>>
    \o safety
    \o move_from_idle_to_microscope(s.id)
    \o close_gripper
    \o move_from_microscope_to_dropoff(s.id, dropoff_slot)
    \o open_gripper
    \o move_safety

_wash_slide(s) ==
    safety
    \o move_from_idle_to_microscope(s.id)
    \o close_gripper
    \o move_from_microscope_to_opentrons(s.id, ot_slot)
    \o open_gripper
    \o move_safety
    \o run_washing_protocol(s.id, ot_slot)

\* ---------------------------------------------------------------- state
\* No Slide exists before the first pipeline invocation; the variable then
\* holds a Slide with the id 0, which no slide list contains.
Init ==
    /\ protocols_arg \in ProtocolArgs
    /\ protocols = IF protocols_arg = <<>> THEN DefaultProtocols
                   ELSE protocols_arg
    /\ slide_ids \in SlideIdLists
    /\ max_wash_loops \in WashLoopArgs
    /\ current_protocol = "NONE"
    /\ pc = "run"
    /\ protocol_index = 0
    /\ slide_index = 1
    /\ slide = Slide(0)
    /\ results = <<>>
    /\ events = <<>>
    /\ raised = None
    /\ evaluations = <<>>
    /\ first_run = None

\* run, lines 65-68
WorkflowStart ==
    /\ pc = "run"
    /\ events' = events \o <<[name |-> "arkitekt.workflow_start",
                              slides |-> slide_ids, protocols |-> protocols]>>
    /\ pc' = "protocol_loop"
    /\ UNCHANGED <<config, current_protocol, protocol_index, slide_index,
                   slide, results, raised, replay>>

\* Mutant: the protocol is not set on the Opentrons.
ProtocolStartWithoutSet ==
    /\ pc = "protocol_loop"
    /\ protocol_index < Len(protocols)
    /\ events' = events
           \o <<[name |-> "arkitekt.protocol_start",
                 protocol |-> protocol_at(protocol_index),
                 protocol_index |-> protocol_index,
                 total_protocols |-> Len(protocols)]>>
    /\ slide_index' = 1
    /\ pc' = "slide_loop"
    /\ UNCHANGED <<config, current_protocol, protocol_index, slide, results,
                   raised, replay>>

\* run, lines 71-79: one more protocol; emit protocol_start, set the protocol
ProtocolStart ==
    /\ pc = "protocol_loop"
    /\ protocol_index < Len(protocols)
    /\ LET protocol == protocol_at(protocol_index)
       IN  /\ events' = events
                  \o <<[name |-> "arkitekt.protocol_start",
                        protocol |-> protocol,
                        protocol_index |-> protocol_index,
                        total_protocols |-> Len(protocols)]>>
                  \o set_protocol(protocol)
           /\ current_protocol' = protocol
    /\ slide_index' = 1
    /\ pc' = "slide_loop"
    /\ UNCHANGED <<config, protocol_index, slide, results, raised, replay>>

\* Mutant: the Slide of the invocation before is used again, with the new id.
ProcessSlideReusingSlide ==
    /\ pc = "slide_loop"
    /\ slide_index <= Len(slide_ids)
    /\ LET slide_id == slide_ids[slide_index]
           protocol == protocol_at(protocol_index)
           is_final == is_final_protocol(protocol_index)
           s == [slide EXCEPT !.id = slide_id]
       IN  /\ slide' = s
           /\ events' = events
                  \o <<[name |-> "arkitekt.slide_protocol_start",
                        slide |-> slide_id, protocol |-> protocol,
                        is_final |-> is_final]>>
                  \o _pickup_slide_to_opentrons(s)
                  \o run_staining_protocol(s.id, ot_slot, protocol)
           /\ pc' = IF is_final THEN "quality_loop" ELSE "return_to_rack"
    /\ results' = <<>>
    /\ UNCHANGED <<config, current_protocol, protocol_index, slide_index,
                   raised, replay>>

\* _process_slide_with_protocol, lines 98-113: a new Slide, the start event,
\* the pickup and the stain, then the branch on is_final_protocol
ProcessSlide ==
    /\ pc = "slide_loop"
    /\ slide_index <= Len(slide_ids)
    /\ LET slide_id == slide_ids[slide_index]
           protocol == protocol_at(protocol_index)
           is_final == is_final_protocol(protocol_index)
           s == Slide(slide_id)
       IN  /\ slide' = s
           /\ events' = events
                  \o <<[name |-> "arkitekt.slide_protocol_start",
                        slide |-> slide_id, protocol |-> protocol,
                        is_final |-> is_final]>>
                  \o _pickup_slide_to_opentrons(s)
                  \o run_staining_protocol(s.id, ot_slot, protocol)
           /\ pc' = IF is_final THEN "quality_loop" ELSE "return_to_rack"
    /\ results' = <<>>
    /\ UNCHANGED <<config, current_protocol, protocol_index, slide_index,
                   raised, replay>>

\* _return_slide_to_rack, then the next slide of run's inner loop
ReturnSlideToRack ==
    /\ pc = "return_to_rack"
    /\ events' = events \o _return_slide_to_rack(slide)
    /\ slide_index' = slide_index + 1
    /\ pc' = "slide_loop"
    /\ UNCHANGED <<config, current_protocol, protocol_index, slide, results,
                   raised, replay>>

\* _quality_evaluation_loop, lines 143-150
MoveToMicroscope ==
    /\ pc = "quality_loop"
    /\ events' = events \o _quality_evaluation_loop_move(slide)
    /\ pc' = "evaluate"
    /\ UNCHANGED <<config, current_protocol, protocol_index, slide_index,
                   slide, results, raised, replay>>

\* The evaluator is deterministic: in a second run it returns what it
\* returned at the same call of the first run.
Replayed(ok) ==
    (first_run # None /\ Len(evaluations) < Len(first_run[1].evaluations))
        => ok = first_run[1].evaluations[Len(evaluations) + 1]

\* _quality_evaluation_loop, lines 153-167: evaluate returns ok; the branch
Evaluate ==
    /\ pc = "evaluate"
    /\ \E ok \in BOOLEAN :
           /\ Replayed(ok)
           /\ slide' = evaluated(slide, ok)
           /\ results' = Append(results, ok)
           /\ evaluations' = Append(evaluations, ok)
           /\ events' = events \o evaluate(slide.id)
           /\ pc' = IF slide'.is_ok = Some(TRUE) THEN "complete"
                    ELSE IF max_washes_exceeded(slide') THEN "failed"
                    ELSE "wash"
    /\ UNCHANGED <<config, current_protocol, protocol_index, slide_index,
                   raised, first_run>>

\* _complete_slide_processing, then break and the next slide
CompleteSlideProcessing ==
    /\ pc = "complete"
    /\ \E outcome \in AnalyzerOutcomes :
           events' = events \o _complete_slide_processing(slide, outcome)
    /\ slide_index' = slide_index + 1
    /\ pc' = "slide_loop"
    /\ UNCHANGED <<config, current_protocol, protocol_index, slide, results,
                   raised, replay>>

\* Mutant: the rejection is raised as an exception after its handling.
HandleFailedSlideRaises ==
    /\ pc = "failed"
    /\ events' = events \o _handle_failed_slide(slide)
    /\ raised' = Some([error |-> "QualityExhausted", slide |-> slide.id])
    /\ pc' = "raised"
    /\ UNCHANGED <<config, current_protocol, protocol_index, slide_index,
                   slide, results, replay>>

\* _handle_failed_slide, then break and the next slide
HandleFailedSlide ==
    /\ pc = "failed"
    /\ events' = events \o _handle_failed_slide(slide)
    /\ slide_index' = slide_index + 1
    /\ pc' = "slide_loop"
    /\ UNCHANGED <<config, current_protocol, protocol_index, slide, results,
                   raised, replay>>

\* _wash_slide, then the next iteration of the while loop
WashSlide ==
    /\ pc = "wash"
    /\ events' = events \o _wash_slide(slide)
    /\ slide' = washed(slide)
    /\ pc' = "quality_loop"
    /\ UNCHANGED <<config, current_protocol, protocol_index, slide_index,
                   results, raised, replay>>

\* Mutant: protocol_complete is not emitted.
ProtocolCompleteSilent ==
    /\ pc = "slide_loop"
    /\ slide_index > Len(slide_ids)
    /\ protocol_index' = protocol_index + 1
    /\ pc' = "protocol_loop"
    /\ UNCHANGED <<config, current_protocol, slide_index, slide, results,
                   events, raised, replay>>

\* run, line 85: the slides of this protocol are done
ProtocolComplete ==
    /\ pc = "slide_loop"
    /\ slide_index > Len(slide_ids)
    /\ events' = events \o <<[name |-> "arkitekt.protocol_complete",
                              protocol |-> protocol_at(protocol_index)]>>
    /\ protocol_index' = protocol_index + 1
    /\ pc' = "protocol_loop"
    /\ UNCHANGED <<config, current_protocol, slide_index, slide, results,
                   raised, replay>>

\* Mutant: run returns without emitting workflow_complete.
WorkflowCompleteMissing ==
    /\ pc = "protocol_loop"
    /\ protocol_index >= Len(protocols)
    /\ pc' = "done"
    /\ UNCHANGED <<config, current_protocol, protocol_index, slide_index,
                   slide, results, events, raised, replay>>

\* run, line 87: the protocols are done
WorkflowComplete ==
    /\ pc = "protocol_loop"
    /\ protocol_index >= Len(protocols)
    /\ events' = events \o <<[name |-> "arkitekt.workflow_complete"]>>
    /\ pc' = "done"
    /\ UNCHANGED <<config, current_protocol, protocol_index, slide_index,
                   slide, results, raised, replay>>

Next ==
    \/ WorkflowStart
    \/ ProtocolStart
    \/ ProcessSlide
    \/ ReturnSlideToRack
    \/ MoveToMicroscope
    \/ Evaluate
    \/ CompleteSlideProcessing
    \/ HandleFailedSlide
    \/ WashSlide
    \/ ProtocolComplete
    \/ WorkflowComplete

Spec == Init /\ [][Next]_vars

\* run is one thread of straight-line code and loops: every call it makes
\* returns (the devices emit and sleep), so a step that can be taken is
\* taken.
LiveSpec == Init /\ [][Next]_vars /\ WF_vars(Next)

\* ------------------------------------------------------- failing calls
\* Neither run nor any method it calls holds a try statement: an exception
\* raised by a device method or by the emit callback leaves the method, its
\* callers and run at once, and reaches the caller of run.

\* The names of the events the robot arm's methods emit, one per call.
RobotCalls ==
    {"robot.move_start", "robot.move_pickup", "robot.close_gripper",
     "robot.open_gripper", "robot.move_rack_to_opentrons",
     "robot.move_opentrons_to_microscope",
     "robot.move_microscope_to_opentrons",
     "robot.move_microscope_to_image_processor",
     "robot.move_image_processor_to_dropoff",
     "robot.move_microscope_to_dropoff", "robot.move_idle_to_opentrons",
     "robot.move_idle_to_microscope", "robot.safety"}

\* The names of the events the orchestrator emits itself.
OrchestratorEvents ==
    {"arkitekt.workflow_start", "arkitekt.protocol_start",
     "arkitekt.slide_protocol_start", "arkitekt.slide_complete",
     "arkitekt.slide_failed", "arkitekt.protocol_complete",
     "arkitekt.workflow_complete"}

\* run is about to call _process_slide_with_protocol.
StartsInvocation == pc = "slide_loop" /\ slide_index <= Len(slide_ids)

\* run is inside _process_slide_with_protocol, or about to call it.
InPipeline ==
    \/ StartsInvocation
    \/ pc \in {"return_to_rack", "quality_loop", "evaluate", "complete",
               "failed", "wash"}

\* What the next step of run passes to emit, in order, when nothing fails.
Pending ==
    CASE pc = "run" ->
             <<[name |-> "arkitekt.workflow_start",
                slides |-> slide_ids, protocols |-> protocols]>>
      [] pc = "protocol_loop" /\ protocol_index < Len(protocols) ->
             <<[name |-> "arkitekt.protocol_start",
                protocol |-> protocol_at(protocol_index),
                protocol_index |-> protocol_index,
                total_protocols |-> Len(protocols)]>>
             \o set_protocol(protocol_at(protocol_index))
      [] pc = "protocol_loop" /\ protocol_index >= Len(protocols) ->
             <<[name |-> "arkitekt.workflow_complete"]>>
      [] StartsInvocation ->
             <<[name |-> "arkitekt.slide_protocol_start",
                slide |-> slide_ids[slide_index],
                protocol |-> protocol_at(protocol_index),
                is_final |-> is_final_protocol(protocol_index)]>>
             \o _pickup_slide_to_opentrons(Slide(slide_ids[slide_index]))
             \o run_staining_protocol(slide_ids[slide_index], ot_slot,
                                      protocol_at(protocol_index))
      [] pc = "slide_loop" /\ slide_index > Len(slide_ids) ->
             <<[name |-> "arkitekt.protocol_complete",
                protocol |-> protocol_at(protocol_index)]>>
      [] pc = "return_to_rack" -> _return_slide_to_rack(slide)
      [] pc = "quality_loop" -> _quality_evaluation_loop_move(slide)
      [] pc = "evaluate" -> evaluate(slide.id)
      [] pc = "complete" ->
             _complete_slide_processing(slide, CHOOSE o \in AnalyzerOutcomes :
                                                   TRUE)
      [] pc = "failed" -> _handle_failed_slide(slide)
      [] pc = "wash" -> _wash_slide(slide)
      [] OTHER -> <<>>

\* The exception leaves run where the k-th pending event would have been
\* emitted: the events before it are in the stream, nothing after it is
\* done.  A Slide is constructed before the first emit of its invocation
\* (line 98); is_ok and loop_count are assigned after the last call of their
\* steps (lines 153, 224), hence not at all.
Raise(k, exception) ==
    /\ events' = events \o SubSeq(Pending, 1, k - 1)
    /\ slide' = IF StartsInvocation THEN Slide(slide_ids[slide_index])
                ELSE slide
    /\ results' = IF StartsInvocation THEN <<>> ELSE results
    /\ raised' = Some([error |-> exception,
                       call |-> Pending[k].name,
                       in_pipeline |-> InPipeline,
                       slide |-> IF InPipeline THEN slide'.id ELSE 0,
                       emitted |-> Len(events) + k - 1])
    /\ pc' = "raised"
    /\ UNCHANGED <<config, protocol_index, slide_index, replay>>

\* Mutant: the exception is recorded and run goes on.
DeviceFaultSwallowed ==
    /\ raised = None
    /\ \E k \in 1..Len(Pending) :
           /\ Pending[k].name \notin OrchestratorEvents
           /\ raised' = Some([error |-> "DeviceFault",
                              call |-> Pending[k].name,
                              in_pipeline |-> InPipeline,
                              slide |-> IF InPipeline THEN slide.id ELSE 0,
                              emitted |-> Len(events) + k - 1])
    /\ UNCHANGED <<config, current_protocol, pc, protocol_index, slide_index,
                   slide, results, events, replay>>

\* A device method raises on entry, before it emits or assigns anything.
DeviceFault ==
    /\ \E k \in 1..Len(Pending) :
           /\ Pending[k].name \notin OrchestratorEvents
           /\ Raise(k, "DeviceFault")
    /\ UNCHANGED current_protocol

\* The emit callback raises on the k-th pending event: in the orchestrator,
\* or inside the device method that emits it (in set_protocol after the
\* assignment to current_protocol, line 55).
EmitFailure ==
    \E k \in 1..Len(Pending) :
        /\ Raise(k, "EmitFailure")
        /\ current_protocol' =
               IF Pending[k].name = "opentrons.protocol_set"
               THEN Pending[k].protocol ELSE current_protocol

FaultNext ==
    \/ Next
    \/ DeviceFault
    \/ EmitFailure

\* The runs in which device methods and the emit callback may raise.
FaultSpec == Init /\ [][FaultNext]_vars

\* -------------------------------------------------------- a second run
\* run is called again with the same slide_ids after it has returned, on the
\* same Orchestrator and devices (the Opentrons keeps its current_protocol)
\* or on new ones built with the same arguments (current_protocol is "NONE"
\* again), with an event sink that starts empty; the events and the
\* evaluations of the first run are kept for the comparison.
Rerun ==
    /\ pc = "done"
    /\ first_run = None
    /\ first_run' = Some([events |-> events, evaluations |-> evaluations])
    /\ current_protocol' \in {current_protocol, "NONE"}
    /\ pc' = "run"
    /\ protocol_index' = 0
    /\ slide_index' = 1
    /\ slide' = Slide(0)
    /\ results' = <<>>
    /\ events' = <<>>
    /\ evaluations' = <<>>
    /\ UNCHANGED <<config, raised>>

ReplayNext ==
    \/ Next
    \/ Rerun

\* The runs that are followed by a second run of the same configuration.
ReplaySpec == Init /\ [][ReplayNext]_vars

\* ------------------------------------------- workflow_orchestrator.py
\* The legacy orchestrator, run after the new one on the same slide list and
\* max_wash_loops with an evaluator that returns the same results.  Its
\* devices emit through the same emit, so events is its call trace.
LegacySlide(id) == [id |-> id, loop_count |-> 0, is_ok |-> None]

legacy_move_start_position == <<[name |-> "robot.move_start"]>>

legacy_move_pickup_position(slot) ==
    <<[name |-> "robot.move_pickup", slot |-> slot]>>

legacy_close_gripper == <<[name |-> "robot.close_gripper"]>>

legacy_open_gripper == <<[name |-> "robot.open_gripper"]>>

legacy_move_to_opentrons(slide_id, slot, state) ==
    <<[name |-> "robot.to_opentrons", slide |-> slide_id, slot |-> slot,
       state |-> state]>>

legacy_move_to_microscope(slide_id, state) ==
    <<[name |-> "robot.to_microscope", slide |-> slide_id, state |-> state]>>

legacy_move_to_dropoff(slide_id, slot) ==
    <<[name |-> "robot.to_dropoff", slide |-> slide_id, slot |-> slot]>>

legacy_move_safety == <<[name |-> "robot.safety"]>>

legacy_run_staining_protocol(slide_id, slot) ==
    <<[name |-> "opentrons.stain", slide |-> slide_id, slot |-> slot]>>

legacy_run_washing_protocol(slide_id, slot) ==
    <<[name |-> "opentrons.wash", slide |-> slide_id, slot |-> slot]>>

legacy_safety == <<[name |-> "microscope.safety"]>>

legacy_evaluate(slide_id) ==
    <<[name |-> "microscope.evaluate", slide |-> slide_id]>>

legacy_scan_slide(slide_id) ==
    <<[name |-> "microscope.scan", slide |-> slide_id]>>

\* The new run has returned; the legacy Orchestrator is built with the same
\* max_wash_loops and slots and run is called with the same slide ids.
LegacyRerun ==
    /\ pc = "done"
    /\ first_run = None
    /\ first_run' = Some([events |-> events, evaluations |-> evaluations])
    /\ pc' = "legacy_run"
    /\ slide_index' = 1
    /\ slide' = LegacySlide(0)
    /\ results' = <<>>
    /\ events' = <<>>
    /\ evaluations' = <<>>
    /\ UNCHANGED <<config, current_protocol, protocol_index, raised>>

\* run (legacy), line 126
LegacyStart ==
    /\ pc = "legacy_run"
    /\ events' = events \o <<[name |-> "arkitekt.start",
                              slides |-> slide_ids]>>
    /\ pc' = "legacy_slide_loop"
    /\ UNCHANGED <<config, current_protocol, protocol_index, slide_index,
                   slide, results, raised, replay>>

\* run (legacy), lines 128-140: a new Slide, the pickup and the stain
LegacyPickupAndStain ==
    /\ pc = "legacy_slide_loop"
    /\ slide_index <= Len(slide_ids)
    /\ LET s == LegacySlide(slide_ids[slide_index])
       IN  /\ slide' = s
           /\ events' = events
                  \o legacy_move_start_position
                  \o legacy_move_pickup_position(pickup_slot)
                  \o legacy_close_gripper
                  \o legacy_move_to_opentrons(s.id, ot_slot, "receive")
                  \o legacy_open_gripper
                  \o legacy_move_safety
                  \o legacy_run_staining_protocol(s.id, ot_slot)
    /\ results' = <<>>
    /\ pc' = "legacy_quality_loop"
    /\ UNCHANGED <<config, current_protocol, protocol_index, slide_index,
                   raised, replay>>

\* run (legacy), lines 143-150: the head of the while loop
LegacyMoveToMicroscope ==
    /\ pc = "legacy_quality_loop"
    /\ events' = events
           \o legacy_move_to_opentrons(slide.id, ot_slot, "pickup")
           \o legacy_close_gripper
           \o legacy_safety
           \o legacy_move_to_microscope(slide.id, "deliver")
           \o legacy_open_gripper
           \o legacy_move_safety
    /\ pc' = "legacy_evaluate"
    /\ UNCHANGED <<config, current_protocol, protocol_index, slide_index,
                   slide, results, raised, replay>>

\* run (legacy), lines 153-168: evaluate returns ok; the two tests
LegacyEvaluate ==
    /\ pc = "legacy_evaluate"
    /\ \E ok \in BOOLEAN :
           /\ Replayed(ok)
           /\ slide' = [slide EXCEPT !.is_ok = Some(ok)]
           /\ results' = Append(results, ok)
           /\ evaluations' = Append(evaluations, ok)
           /\ events' = events \o legacy_evaluate(slide.id)
           /\ pc' = IF ok THEN "legacy_done_slide"
                    ELSE IF slide.loop_count >= max_wash_loops
                         THEN "legacy_failed"
                    ELSE "legacy_wash"
    /\ UNCHANGED <<config, current_protocol, protocol_index, slide_index,
                   raised, first_run>>

\* run (legacy), lines 157-165: scan, drop off, slide_done, break
LegacySlideDone ==
    /\ pc = "legacy_done_slide"
    /\ events' = events
           \o legacy_scan_slide(slide.id)
           \o legacy_safety
           \o legacy_move_to_microscope(slide.id, "pickup")
           \o legacy_close_gripper
           \o legacy_move_to_dropoff(slide.id, dropoff_slot)
           \o legacy_open_gripper
           \o legacy_move_safety
           \o <<[name |-> "arkitekt.slide_done", slide |-> slide.id,
                 loops |-> slide.loop_count]>>
    /\ slide_index' = slide_index + 1
    /\ pc' = "legacy_slide_loop"
    /\ UNCHANGED <<config, current_protocol, protocol_index, slide, results,
                   raised, replay>>

\* run (legacy), lines 169-177: failed_quality, drop off, break
LegacyFailedQuality ==
    /\ pc = "legacy_failed"
    /\ events' = events
           \o <<[name |-> "arkitekt.failed_quality", slide |-> slide.id,
                 loops |-> slide.loop_count]>>
           \o legacy_safety
           \o legacy_move_to_microscope(slide.id, "pickup")
           \o legacy_close_gripper
           \o legacy_move_to_dropoff(slide.id, dropoff_slot)
           \o legacy_open_gripper
           \o legacy_move_safety
    /\ slide_index' = slide_index + 1
    /\ pc' = "legacy_slide_loop"
    /\ UNCHANGED <<config, current_protocol, protocol_index, slide, results,
                   raised, replay>>

\* run (legacy), lines 180-187: back to the Opentrons, wash, loop_count += 1
LegacyWash ==
    /\ pc = "legacy_wash"
    /\ events' = events
           \o legacy_safety
           \o legacy_move_to_microscope(slide.id, "pickup")
           \o legacy_close_gripper
           \o legacy_move_to_opentrons(slide.id, ot_slot, "wash")
           \o legacy_open_gripper
           \o legacy_move_safety
           \o legacy_run_washing_protocol(slide.id, ot_slot)
    /\ slide' = [slide EXCEPT !.loop_count = @ + 1]
    /\ pc' = "legacy_quality_loop"
    /\ UNCHANGED <<config, current_protocol, protocol_index, slide_index,
                   results, raised, replay>>

\* run (legacy), line 189: the slides are done
LegacyDone ==
    /\ pc = "legacy_slide_loop"
    /\ slide_index > Len(slide_ids)
    /\ events' = events \o <<[name |-> "arkitekt.done"]>>
    /\ pc' = "legacy_done"
    /\ UNCHANGED <<config, current_protocol, protocol_index, slide_index,
                   slide, results, raised, replay>>

LegacyNext ==
    \/ Next
    \/ LegacyRerun
    \/ LegacyStart
    \/ LegacyPickupAndStain
    \/ LegacyMoveToMicroscope
    \/ LegacyEvaluate
    \/ LegacySlideDone
    \/ LegacyFailedQuality
    \/ LegacyWash
    \/ LegacyDone

LegacySpec == Init /\ [][LegacyNext]_vars

\* Every step of run without a failure emits exactly the pending events.
PendingIsEmitted == [][Next => events' = events \o Pending]_vars

\* ================================================================ claims
\* ------------------------------------------------- reading the event log
Last(seq) == seq[Len(seq)]

EventsNamed(seq, names) == SelectSeq(seq, LAMBDA e : e.name \in names)

CountNamed(seq, names) == Len(EventsNamed(seq, names))

\* The positions in seq, in order, of the events with one of the names.
PositionsNamed(seq, names) ==
    SelectSeq([i \in 1..Len(seq) |-> i], LAMBDA i : seq[i].name \in names)

\* Number of the events with one of the names among the first i - 1 events.
CountBefore(names, i) == CountNamed(SubSeq(events, 1, i - 1), names)

\* The events of the latest pipeline invocation, from its
\* slide_protocol_start on (empty before the first invocation).
Invocation ==
    LET starts == PositionsNamed(events, {"arkitekt.slide_protocol_start"})
    IN  IF starts = <<>> THEN <<>>
        ELSE SubSeq(events, Last(starts), Len(events))

TerminalNames == {"arkitekt.slide_complete", "arkitekt.slide_failed"}

InQualityLoop == pc \in {"quality_loop", "evaluate", "wash"}

\* The latest pipeline invocation has returned to run.
PipelineExited ==
    /\ pc \in {"slide_loop", "protocol_loop", "done"}
    /\ Invocation # <<>>

DistinctIds == \A i, j \in 1..Len(slide_ids) :
                   slide_ids[i] = slide_ids[j] => i = j

\* C1: with max_wash_loops = N >= 0, the loop_count of the slide being
\* processed is between 0 and N in every state of run, the state in which its
\* pipeline has exited included, and so is the loops value of every terminal
\* event.
C1_LoopCountBounded ==
    max_wash_loops >= 0 =>
        /\ 0 <= slide.loop_count
        /\ slide.loop_count <= max_wash_loops
        /\ LET terminal == EventsNamed(events, TerminalNames)
           IN  \A i \in 1..Len(terminal) :
                   /\ 0 <= terminal[i].loops
                   /\ terminal[i].loops <= max_wash_loops

\* C1 witness: a pipeline has exited with the whole budget N = 2 used.
C1_Witness ==
    /\ max_wash_loops = 2
    /\ PipelineExited
    /\ slide.loop_count = max_wash_loops

\* The final protocol's pass has finished with the slide at position j.
FinalPassDone(j) ==
    \/ protocol_index >= Len(protocols)
    \/ /\ is_final_protocol(protocol_index)
       /\ pc # "protocol_loop"
       /\ j < slide_index

TerminalEventsOf(id) ==
    SelectSeq(events, LAMBDA e : e.name \in TerminalNames /\ e.slide = id)

\* C2: with distinct slide ids, each slide id has no terminal event until the
\* final protocol's pipeline for it has exited, and from then on exactly one:
\* one slide_complete or one slide_failed, never both, never two.
C2_SingleTerminalOutcome ==
    DistinctIds =>
        \A j \in 1..Len(slide_ids) :
            Len(TerminalEventsOf(slide_ids[j]))
                = IF FinalPassDone(j) THEN 1 ELSE 0

\* C2 witness: a finished run of two slides, one accepted and one rejected.
C2_Witness ==
    /\ pc = "done"
    /\ slide_ids = <<1, 2>>
    /\ Len(protocols) = 2
    /\ CountNamed(events, {"arkitekt.slide_complete"}) = 1
    /\ CountNamed(events, {"arkitekt.slide_failed"}) = 1

\* C3: with max_wash_loops = N >= 0, a pipeline invocation calls evaluate at
\* most N + 1 times, and once it has called it N + 1 times the quality loop is
\* over: the slide is being accepted or rejected, or has been.
C3_EvaluationsBounded ==
    max_wash_loops >= 0 =>
        LET n == CountNamed(Invocation, {"microscope.evaluate"})
        IN  /\ n <= max_wash_loops + 1
            /\ n = Len(results)
            /\ n = max_wash_loops + 1 => ~InQualityLoop

\* C3 witness: the third evaluation of a slide with N = 2 has been NotOk.
C3_Witness ==
    /\ max_wash_loops = 2
    /\ CountNamed(Invocation, {"microscope.evaluate"}) = 3
    /\ pc = "failed"

\* Events that belong to the quality loop and what follows it.
QualityNames ==
    {"microscope.evaluate", "microscope.scan", "opentrons.wash",
     "robot.move_opentrons_to_microscope",
     "robot.move_microscope_to_opentrons",
     "robot.move_microscope_to_image_processor",
     "robot.move_image_processor_to_dropoff",
     "robot.move_microscope_to_dropoff",
     "image_processor.start_processing", "image_processor.analyze_antibodies",
     "image_processor.antibody_results", "image_processor.identify_cancer",
     "image_processor.cancer_results", "image_processor.generate_report",
     "image_processor.report_complete", "image_processor.processing_complete",
     "arkitekt.slide_complete", "arkitekt.slide_failed"}

\* C4: while a protocol with an index below n-1 is being processed nothing of
\* the quality loop has happened yet (no evaluate, wash, scan, analysis,
\* slide_complete or slide_failed), and every evaluate event lies in the pass
\* of the protocol with index n-1: after its protocol_start, which is the
\* n-th, and before its protocol_complete (the counts of protocol_start and
\* protocol_complete before the first and the last such event say so).
C4_NonFinalNeverEvaluates ==
    /\ protocol_index < Len(protocols) - 1 =>
           CountNamed(events, QualityNames) = 0
    /\ LET quality == PositionsNamed(events, QualityNames)
           first == quality[1]
           last == quality[Len(quality)]
       IN  quality # <<>> =>
               /\ CountBefore({"arkitekt.protocol_start"}, first)
                      = Len(protocols)
               /\ CountNamed(events, {"arkitekt.protocol_start"})
                      = Len(protocols)
               /\ CountBefore({"arkitekt.protocol_complete"}, first)
                      = Len(protocols) - 1
               /\ CountBefore({"arkitekt.protocol_complete"}, last)
                      = Len(protocols) - 1

\* C4 witness: the pass of a non-final protocol has processed both slides.
C4_Witness ==
    /\ Len(protocols) = 2
    /\ protocol_index = 0
    /\ Len(slide_ids) = 2
    /\ pc = "slide_loop"
    /\ slide_index = 3
    /\ CountNamed(events, {"opentrons.stain"}) = 2

\* The stain operations of the events at the positions: (protocol, slide).
StainsAt(positions) ==
    [k \in 1..Len(positions) |->
        <<events[positions[k]].protocol, events[positions[k]].slide>>]

Stains == StainsAt(PositionsNamed(events, {"opentrons.stain"}))

\* (p_0,s_0), ..., (p_0,s_m-1), (p_1,s_0), ..., (p_n-1,s_m-1)
ExpectedStains ==
    LET m == Len(slide_ids)
    IN  [k \in 1..(Len(protocols) * m) |->
            <<protocols[((k - 1) \div m) + 1], slide_ids[((k - 1) % m) + 1]>>]

\* C5: the stain operations are, in order, a prefix of (p_0,s_0), ...,
\* (p_0,s_m-1), (p_1,s_0), ..., (p_n-1,s_m-1) and the whole of it when the run
\* is done; the k-th stain comes after the protocol_complete of every earlier
\* protocol and, in the final pass, after the terminal event of every earlier
\* slide; with distinct names and ids no pair is stained twice.
C5_StainOrder ==
    LET m == Len(slide_ids)
        at == PositionsNamed(events, {"opentrons.stain"})
        stains == StainsAt(at)
        expected == ExpectedStains
    IN  /\ Len(stains) <= Len(expected)
        /\ \A k \in 1..Len(stains) :
               /\ stains[k] = expected[k]
               /\ CountBefore({"arkitekt.protocol_complete"}, at[k])
                      = (k - 1) \div m
               /\ (k - 1) \div m = Len(protocols) - 1 =>
                      CountBefore(TerminalNames, at[k]) = (k - 1) % m
        /\ pc = "done" => Len(stains) = Len(expected)
        /\ DistinctIds =>
               \A k, l \in 1..Len(stains) : stains[k] = stains[l] => k = l

\* C5 witness: scenario 4 of the specification, finished.
C5_Witness ==
    /\ pc = "done"
    /\ protocols = <<"Receptor42", "Receptor0815">>
    /\ slide_ids = <<1, 2>>
    /\ Stains = << <<"Receptor42", 1>>, <<"Receptor42", 2>>,
                   <<"Receptor0815", 1>>, <<"Receptor0815", 2>> >>

ProtocolEvents ==
    EventsNamed(events, {"arkitekt.protocol_start",
                         "arkitekt.protocol_complete"})

\* C6: workflow_start is the first event and is emitted once; the protocol
\* events are start 0, complete 0, start 1, complete 1, ... with the
\* protocols' names in order, all n pairs once the run is done;
\* workflow_complete is emitted when the run is done, once, and nothing
\* follows it.
C6_EventOrder ==
    /\ events # <<>> => events[1].name = "arkitekt.workflow_start"
    /\ PositionsNamed(events, {"arkitekt.workflow_start"}) \in {<<>>, <<1>>}
    /\ PositionsNamed(events, {"arkitekt.workflow_complete"})
           = IF pc = "done" THEN <<Len(events)>> ELSE <<>>
    /\ LET pe == ProtocolEvents
       IN  /\ Len(pe) <= 2 * Len(protocols)
           /\ pc = "done" => Len(pe) = 2 * Len(protocols)
           /\ \A j \in 1..Len(pe) :
                  /\ pe[j].protocol = protocols[(j + 1) \div 2]
                  /\ pe[j].name = IF j % 2 = 1 THEN "arkitekt.protocol_start"
                                  ELSE "arkitekt.protocol_complete"
                  /\ j % 2 = 1 => pe[j].protocol_index = (j - 1) \div 2

\* C6 witness: a finished run of two protocols over two slides.
C6_Witness ==
    /\ pc = "done"
    /\ Len(protocols) = 2
    /\ Len(slide_ids) = 2
    /\ Last(events).name = "arkitekt.workflow_complete"
    /\ Len(ProtocolEvents) = 4

\* The values evaluate returned to this invocation are k NotOk, then Ok.
AllNotOk(seq) == \A j \in 1..Len(seq) : seq[j] = FALSE

NotOkThenOk(k) ==
    /\ Len(results) = k + 1
    /\ AllNotOk(SubSeq(results, 1, k))
    /\ results[k + 1] = TRUE

\* C7: a NotOk evaluation that leaves loop_count below max_wash_loops never
\* rejects the slide: the loop goes on to wash and evaluate again.  When the
\* evaluations of a slide are k NotOk and then Ok, k washes have been done
\* and no terminal event emitted when the Ok arrives, and the pipeline exits
\* with one slide_complete for the slide carrying loops = k, after k washes
\* and k + 1 evaluations, and with no slide_failed.
C7_AcceptedAfterWashes ==
    /\ (results # <<>> /\ AllNotOk(results) /\ Len(results) <= max_wash_loops)
           => InQualityLoop
    /\ \A k \in 0..Len(results) - 1 :
           NotOkThenOk(k) =>
               LET inv == Invocation
                   done == EventsNamed(inv, {"arkitekt.slide_complete"})
               IN  /\ k <= max_wash_loops \/ k = 0
                   /\ CountNamed(inv, {"opentrons.wash"}) = k
                   /\ CountNamed(inv, {"microscope.evaluate"}) = k + 1
                   /\ CountNamed(inv, {"arkitekt.slide_failed"}) = 0
                   /\ pc = "complete" \/ PipelineExited
                   /\ pc = "complete" => done = <<>>
                   /\ PipelineExited =>
                          /\ Len(done) = 1
                          /\ done[1].slide = slide.id
                          /\ done[1].loops = k

\* C7 witness: scenario 2 of the specification: NotOk, NotOk, Ok with a
\* budget of two washes; the slide has been accepted with loops = 2.
C7_Witness ==
    /\ max_wash_loops = 2
    /\ results = <<FALSE, FALSE, TRUE>>
    /\ PipelineExited
    /\ slide.loop_count = 2
    /\ LET inv == Invocation
       IN  /\ CountNamed(inv, {"opentrons.wash"}) = 2
           /\ EventsNamed(inv, {"arkitekt.slide_complete"}) # <<>>
           /\ EventsNamed(inv, {"arkitekt.slide_complete"})[1].loops = 2

AnalysisNames ==
    {"microscope.scan", "robot.move_microscope_to_image_processor",
     "image_processor.start_processing", "image_processor.analyze_antibodies",
     "image_processor.antibody_results", "image_processor.identify_cancer",
     "image_processor.cancer_results", "image_processor.generate_report",
     "image_processor.report_complete", "image_processor.processing_complete",
     "robot.move_image_processor_to_dropoff", "arkitekt.slide_complete"}

\* C8: with max_wash_loops = N >= 0, when evaluate has returned NotOk N + 1
\* times to a slide, the slide is rejected: N washes and N + 1 evaluations
\* were done, the pipeline exits with one slide_failed for the slide, with
\* the reason max_wash_loops_exceeded and loops = N, and the invocation holds
\* no scan, no analysis and no slide_complete.
C8_RejectedAfterBudget ==
    (max_wash_loops >= 0 /\ AllNotOk(results)
        /\ Len(results) = max_wash_loops + 1) =>
        LET inv == Invocation
            failed == EventsNamed(inv, {"arkitekt.slide_failed"})
        IN  /\ pc = "failed" \/ PipelineExited
            /\ slide.loop_count = max_wash_loops
            /\ CountNamed(inv, {"opentrons.wash"}) = max_wash_loops
            /\ CountNamed(inv, {"microscope.evaluate"}) = max_wash_loops + 1
            /\ CountNamed(inv, AnalysisNames) = 0
            /\ pc = "failed" => failed = <<>>
            /\ PipelineExited =>
                   /\ Len(failed) = 1
                   /\ failed[1].slide = slide.id
                   /\ failed[1].loops = max_wash_loops
                   /\ failed[1].reason = "max_wash_loops_exceeded"

\* C8 witness: scenario 3 of the specification: always NotOk with a budget
\* of one wash; the slide has been rejected with loops = 1.
C8_Witness ==
    /\ max_wash_loops = 1
    /\ results = <<FALSE, FALSE>>
    /\ PipelineExited
    /\ LET inv == Invocation
       IN  /\ CountNamed(inv, {"opentrons.wash"}) = 1
           /\ EventsNamed(inv, {"arkitekt.slide_failed"}) # <<>>
           /\ EventsNamed(inv, {"arkitekt.slide_failed"})[1].loops = 1

\* A step of the pipeline invocation in progress: every action but the one
\* that constructs the next Slide leaves the Slide object the same.
SameSlide == pc # "slide_loop"

\* C9 as claimed: the quality status of a slide changes only from Unknown,
\* to Ok or NotOk, hence once, and only in the final protocol's pass; a
\* NotOk never becomes Ok.
C9_QualityStatusSetOnce ==
    [][(SameSlide /\ slide'.is_ok # slide.is_ok) =>
           /\ slide.is_ok = None
           /\ slide'.is_ok \in {Some(TRUE), Some(FALSE)}
           /\ is_final_protocol(protocol_index)]_vars

\* C9 as amended: the quality status of a slide changes only by an
\* evaluation in the final protocol's pass; it changes from Unknown to Ok or
\* NotOk, or from NotOk to Ok (the re-evaluation after a wash); it never
\* returns to Unknown and an Ok never changes.
C9_QualityStatusTransitions ==
    [][(SameSlide /\ slide'.is_ok # slide.is_ok) =>
           /\ pc = "evaluate"
           /\ is_final_protocol(protocol_index)
           /\ slide.is_ok \in {None, Some(FALSE)}
           /\ slide'.is_ok \in {Some(TRUE), Some(FALSE)}
           /\ slide.is_ok = Some(FALSE) => slide'.is_ok = Some(TRUE)]_vars

\* C9 witness: a slide evaluated NotOk, washed, and then evaluated Ok.
C9_Witness ==
    /\ results = <<FALSE, TRUE>>
    /\ slide.is_ok = Some(TRUE)
    /\ slide.loop_count = 1
    /\ pc = "complete"

\* The events of the latest invocation after its last evaluate.
AfterLastEvaluate ==
    LET inv == Invocation
        at == PositionsNamed(inv, {"microscope.evaluate"})
    IN  IF at = <<>> THEN <<>>
        ELSE SubSeq(inv, Last(at) + 1, Len(inv))

AcceptedPathNames ==
    {"microscope.scan", "robot.move_microscope_to_image_processor",
     "image_processor.start_processing", "image_processor.report_complete",
     "image_processor.processing_complete",
     "robot.move_image_processor_to_dropoff", "arkitekt.slide_complete"}

\* C10: when a slide has been accepted, the events after its Ok evaluation
\* hold, in this order and once each: the full scan, the move microscope ->
\* image processor, the analysis (start_processing .. report_complete ..
\* processing_complete), the move image processor -> dropoff and
\* slide_complete, all for this slide; and the analysis that slide_complete
\* carries is the report the analyzer produced for the slide.
C10_AcceptedPathOrder ==
    (PipelineExited /\ slide.is_ok = Some(TRUE)) =>
        LET path == EventsNamed(AfterLastEvaluate,
                                AcceptedPathNames \cup TerminalNames)
        IN  /\ [i \in 1..Len(path) |-> path[i].name]
                   = <<"microscope.scan",
                       "robot.move_microscope_to_image_processor",
                       "image_processor.start_processing",
                       "image_processor.report_complete",
                       "image_processor.processing_complete",
                       "robot.move_image_processor_to_dropoff",
                       "arkitekt.slide_complete">>
            /\ \A i \in 1..Len(path) : path[i].slide = slide.id
            /\ path[7].analysis = path[4].report
            /\ path[7].analysis.slide_id = slide.id
            /\ path[7].analysis.status = "complete"

\* C10 witness: a slide accepted after one wash, with the analyzer's report
\* (a detected cancer, quality score 93) in its slide_complete.
C10_Witness ==
    /\ PipelineExited
    /\ results = <<FALSE, TRUE>>
    /\ LET done == EventsNamed(AfterLastEvaluate, {"arkitekt.slide_complete"})
       IN  /\ Len(done) = 1
           /\ done[1].loops = 1
           /\ done[1].analysis.cancer_analysis.cancer_detected
           /\ done[1].analysis.overall_quality_score = 93

\* C11: in a pipeline invocation slide_complete comes after the move image
\* processor -> dropoff of the same slide, and slide_failed comes after the
\* move microscope -> dropoff of the same slide.
C11_TerminalAfterDropoff ==
    LET inv == Invocation
        done == PositionsNamed(inv, {"arkitekt.slide_complete"})
        failed == PositionsNamed(inv, {"arkitekt.slide_failed"})
        from_analyzer ==
            PositionsNamed(inv, {"robot.move_image_processor_to_dropoff"})
        from_microscope ==
            PositionsNamed(inv, {"robot.move_microscope_to_dropoff"})
    IN  /\ done # <<>> =>
               /\ from_analyzer # <<>>
               /\ from_analyzer[1] < done[1]
               /\ inv[from_analyzer[1]].slide = inv[done[1]].slide
        /\ failed # <<>> =>
               /\ from_microscope # <<>>
               /\ from_microscope[1] < failed[1]
               /\ inv[from_microscope[1]].slide = inv[failed[1]].slide

\* The half of C11 about accepted slides, alone.
C11_CompleteAfterDropoff ==
    LET inv == Invocation
        done == PositionsNamed(inv, {"arkitekt.slide_complete"})
        from_analyzer ==
            PositionsNamed(inv, {"robot.move_image_processor_to_dropoff"})
    IN  done # <<>> =>
            /\ from_analyzer # <<>>
            /\ from_analyzer[1] < done[1]
            /\ inv[from_analyzer[1]].slide = inv[done[1]].slide

\* What the code does for a rejected slide: slide_failed is emitted first,
\* the move microscope -> dropoff of the same slide follows it.
C11_FailedBeforeDropoff ==
    LET inv == Invocation
        failed == PositionsNamed(inv, {"arkitekt.slide_failed"})
        from_microscope ==
            PositionsNamed(inv, {"robot.move_microscope_to_dropoff"})
    IN  failed # <<>> =>
            /\ from_microscope # <<>>
            /\ failed[1] < from_microscope[1]
            /\ inv[from_microscope[1]].slide = inv[failed[1]].slide

\* The events of the protocol iterations that concern the liquid handler.
LiquidHandlerNames ==
    {"arkitekt.protocol_start", "opentrons.protocol_set", "opentrons.stain",
     "opentrons.wash", "arkitekt.protocol_complete"}

\* A protocol iteration is in progress: run is between its set_protocol and
\* its protocol_complete.
InProtocolIteration == pc \notin {"run", "protocol_loop", "done"}

\* C12: each protocol_start is followed at once by the one protocol_set of
\* its iteration, with the same protocol; a protocol_set appears nowhere
\* else; every stain and every wash comes after the protocol_set of its
\* iteration and carries that protocol (a wash carries current_protocol as
\* it is when the wash is done); and while an iteration is in progress
\* current_protocol is the iteration's protocol.
C12_ProtocolSetOncePerIteration ==
    /\ InProtocolIteration => current_protocol = protocol_at(protocol_index)
    /\ LET trace == EventsNamed(events, LiquidHandlerNames)
           names == [j \in 1..Len(trace) |-> trace[j].name]
           protocol == [j \in 1..Len(trace) |-> trace[j].protocol]
       IN  /\ CountNamed(trace, {"opentrons.protocol_set"})
                  = CountNamed(trace, {"arkitekt.protocol_start"})
           /\ \A j \in 1..Len(trace) :
                  IF names[j] = "arkitekt.protocol_start"
                  THEN /\ j = 1 \/ names[j - 1] = "arkitekt.protocol_complete"
                       /\ protocol[j] = protocols[trace[j].protocol_index + 1]
                  ELSE /\ j > 1
                       /\ protocol[j] = protocol[j - 1]
                       /\ IF names[j] = "opentrons.protocol_set"
                          THEN names[j - 1] = "arkitekt.protocol_start"
                          ELSE names[j - 1] \in {"opentrons.protocol_set",
                                                 "opentrons.stain",
                                                 "opentrons.wash"}

\* C12 witness: a finished run of two protocols over two slides with a wash:
\* two protocol_set events, four stains.
C12_Witness ==
    /\ pc = "done"
    /\ Len(protocols) = 2
    /\ Len(slide_ids) = 2
    /\ CountNamed(events, {"opentrons.protocol_set"}) = 2
    /\ CountNamed(events, {"opentrons.stain"}) = 4
    /\ CountNamed(events, {"opentrons.wash"}) >= 1
    /\ current_protocol = protocols[2]

\* A call of a device other than the robot arm has failed inside a pipeline
\* invocation.
NonRobotFaultInPipeline ==
    /\ raised # None
    /\ raised[1].error = "DeviceFault"
    /\ raised[1].in_pipeline
    /\ raised[1].call \notin RobotCalls

\* C13: when a call of a device other than the robot arm fails while a slide
\* is being processed, run is not left by the exception: the failure ends
\* that slide's invocation only, with a slide_failed event for the slide
\* whose reason is device_fault, emitted after the events that preceded the
\* failure, and run goes on with the next slide.
C13_DeviceFaultAbortsOnlySlide ==
    NonRobotFaultInPipeline =>
        /\ pc # "raised"
        /\ Len(events) > raised[1].emitted
        /\ LET reported == events[raised[1].emitted + 1]
           IN  /\ reported.name = "arkitekt.slide_failed"
               /\ reported.slide = raised[1].slide
               /\ reported.reason = "device_fault"

\* What the code does instead: the failure of any device call leaves run;
\* no slide_failed is emitted for it and nothing else is done.
C13_DeviceFaultLeavesRun ==
    NonRobotFaultInPipeline =>
        /\ pc = "raised"
        /\ Len(events) = raised[1].emitted
        /\ \A i \in 1..Len(events) :
               events[i].name = "arkitekt.slide_failed" =>
                   events[i].reason = "max_wash_loops_exceeded"

\* A call of the robot arm has failed.
RobotFault ==
    /\ raised # None
    /\ raised[1].error = "DeviceFault"
    /\ raised[1].call \in RobotCalls

\* C14: when a call of the robot arm fails, at whatever point of run, the
\* exception reaches the caller of run; the event stream, which holds every
\* device call, ends with the events that preceded the failure, so no device
\* call is made after it, for no slide and no protocol; and workflow_complete
\* is not in the stream.
C14_RobotFaultAbortsRun ==
    RobotFault =>
        /\ pc = "raised"
        /\ Len(events) = raised[1].emitted
        /\ CountNamed(events, {"arkitekt.workflow_complete"}) = 0
        /\ Last(events).name # "arkitekt.workflow_complete"

\* C14 witness: the robot arm fails in the final pass, on the way back to
\* the Opentrons for a wash of the first of two slides: the second slide is
\* never staged with the final protocol.
C14_Witness ==
    /\ RobotFault
    /\ raised[1].call = "robot.move_microscope_to_opentrons"
    /\ raised[1].slide = 1
    /\ slide_ids = <<1, 2>>
    /\ Len(protocols) = 2
    /\ protocol_index = 1
    /\ CountNamed(events, {"opentrons.stain"}) = 3
    /\ pc = "raised"

\* run was left by a ConfigurationError.
Rejected == raised # None /\ raised[1].error = "ConfigurationError"

\* No device method has been called and no protocol started.
NoDeviceInteraction ==
    \A i \in 1..Len(events) : events[i].name = "arkitekt.workflow_start"

\* C15: a run whose protocols argument is the empty list is rejected with a
\* ConfigurationError before any device call: the stream never holds an
\* event of a device (no protocol_set, robot, stain, wash, evaluate, scan or
\* analysis event), no protocol is started for any slide, and the run does
\* not end normally.
C15_EmptyProtocolsRejected ==
    protocols_arg = <<>> =>
        /\ NoDeviceInteraction
        /\ pc # "done"
        /\ raised # None => Rejected

\* What the code does instead: the empty list is replaced by the two
\* default protocols (line 53) and the run is carried out with them.
C15_EmptyProtocolsRunDefaults ==
    protocols_arg = <<>> =>
        /\ protocols = DefaultProtocols
        /\ ~Rejected
        /\ pc = "done" =>
               /\ CountNamed(events, {"opentrons.protocol_set"}) = 2
               /\ CountNamed(events, {"opentrons.stain"})
                      = 2 * Len(slide_ids)

\* C16: a run whose slide_ids holds an id twice is rejected with a
\* ConfigurationError before any device call: the stream never holds an
\* event of a device and the run does not end normally; hence in every run
\* no (protocol, slide id) pair is stained twice (every stain follows a
\* pickup) and no slide id gets two terminal events.
C16_DuplicateIdsRejected ==
    /\ ~DistinctIds =>
           /\ NoDeviceInteraction
           /\ pc # "done"
           /\ raised # None => Rejected
    /\ LET stains == Stains
       IN  \A k, l \in 1..Len(stains) : stains[k] = stains[l] => k = l
    /\ \A j \in 1..Len(slide_ids) :
           Len(TerminalEventsOf(slide_ids[j])) <= 1

\* What the code does instead: slide_ids is not validated; an id that is in
\* the list twice is picked up and stained twice with every protocol and
\* gets two terminal events.
C16_DuplicateIdsProcessedTwice ==
    (slide_ids = <<1, 1>> /\ pc = "done") =>
        /\ ~Rejected
        /\ CountNamed(events, {"robot.move_rack_to_opentrons"})
               = 2 * Len(protocols)
        /\ CountNamed(events, {"opentrons.stain"}) = 2 * Len(protocols)
        /\ Len(TerminalEventsOf(1)) = 2

\* C17: an exception raised by the emit callback, on whatever event, is
\* never the exception that leaves run: it is swallowed where it is raised
\* and run goes on with the same device calls.
C17_EmitFailureNeverPropagates ==
    raised # None => raised[1].error # "EmitFailure"

\* What the code does instead: emit is called without a try statement, in
\* the orchestrator and in the device methods alike; the exception leaves
\* run, and the device calls that were to follow are not made.
C17_EmitFailureLeavesRun ==
    (raised # None /\ raised[1].error = "EmitFailure") =>
        /\ pc = "raised"
        /\ Len(events) = raised[1].emitted
        /\ CountNamed(events, {"arkitekt.workflow_complete"}) = 0

WorkflowAndProtocolNames ==
    {"arkitekt.workflow_start", "arkitekt.protocol_start",
     "arkitekt.protocol_complete", "arkitekt.workflow_complete"}

\* The names of the events, in order.
Names(seq) == [i \in 1..Len(seq) |-> seq[i].name]

\* C18 as claimed: a run of no slides emits workflow_start, protocol_start
\* and protocol_complete for each protocol in order, and workflow_complete,
\* and nothing else: no event of a slide and no event of a device.
C18_OnlyWorkflowAndProtocolEvents ==
    slide_ids = <<>> =>
        \A i \in 1..Len(events) : events[i].name \in WorkflowAndProtocolNames

\* C18 as amended: a run of no slides over n >= 1 protocols emits
\* workflow_start, then for each protocol in order protocol_start, the
\* liquid handler's protocol_set and protocol_complete, each carrying the
\* protocol, then workflow_complete; the stream holds nothing else at any
\* time: no event of a slide and no other event of a device.
C18_EmptySlideListEvents ==
    slide_ids = <<>> =>
        LET n == Len(protocols)
            expected ==
                [i \in 1..(3 * n + 2) |->
                    IF i = 1 THEN "arkitekt.workflow_start"
                    ELSE IF i = 3 * n + 2 THEN "arkitekt.workflow_complete"
                    ELSE IF i % 3 = 2 THEN "arkitekt.protocol_start"
                    ELSE IF i % 3 = 0 THEN "opentrons.protocol_set"
                    ELSE "arkitekt.protocol_complete"]
        IN  /\ n >= 1
            /\ Len(events) <= 3 * n + 2
            /\ Names(events) = SubSeq(expected, 1, Len(events))
            /\ \A i \in 2..Len(events) :
                   i < 3 * n + 2 =>
                       events[i].protocol = protocols[(i + 1) \div 3]
            /\ pc = "done" <=> Len(events) = 3 * n + 2

\* C18 witness: the run of no slides over two protocols has ended; the
\* stream holds eight events, two of them protocol_set.
C18_Witness ==
    /\ slide_ids = <<>>
    /\ Len(protocols) = 2
    /\ pc = "done"
    /\ Len(events) = 8
    /\ CountNamed(events, {"opentrons.protocol_set"}) = 2

\* C19: a rejection raises nothing: no exception leaves run, and the
\* rejecting step hands control back to the loop over the slides.  After
\* the handling of a rejected slide (slide_failed with the reason
\* max_wash_loops_exceeded and the six device calls that follow it) the next
\* event is the slide_protocol_start of the next slide of the list, for the
\* final protocol, or, after the last slide, protocol_complete and then
\* workflow_complete; a finished run has a terminal event for every slide
\* and ends with protocol_complete, workflow_complete.
C19_RejectionIsNoFault ==
    /\ raised = None
    /\ pc # "raised"
    /\ LET m == Len(slide_ids)
           total == Len(events)
           failed == PositionsNamed(events, {"arkitekt.slide_failed"})
       IN  /\ \A f \in 1..Len(failed) :
                  LET at == failed[f]
                      next == at + 7
                      k == CountBefore(TerminalNames, at) + 1
                  IN  /\ events[at].reason = "max_wash_loops_exceeded"
                      /\ events[at].slide = slide_ids[k]
                      /\ total >= at + 6
                      /\ total = at + 6 =>
                             /\ pc = "slide_loop"
                             /\ slide_index = k + 1
                      /\ (total >= next /\ k < m) =>
                             /\ events[next].name
                                    = "arkitekt.slide_protocol_start"
                             /\ events[next].slide = slide_ids[k + 1]
                             /\ events[next].is_final
                      /\ (total >= next /\ k = m) =>
                             /\ events[next].name
                                    = "arkitekt.protocol_complete"
                             /\ total > next =>
                                    events[next + 1].name
                                        = "arkitekt.workflow_complete"
           /\ pc = "done" =>
                  /\ CountNamed(events, TerminalNames) = m
                  /\ events[total - 1].name = "arkitekt.protocol_complete"
                  /\ events[total].name = "arkitekt.workflow_complete"

\* C19 witness: a finished run in which the first of two slides was
\* rejected and the second one accepted after it.
C19_Witness ==
    /\ pc = "done"
    /\ slide_ids = <<1, 2>>
    /\ Len(TerminalEventsOf(1)) = 1
    /\ TerminalEventsOf(1)[1].name = "arkitekt.slide_failed"
    /\ Len(TerminalEventsOf(2)) = 1
    /\ TerminalEventsOf(2)[1].name = "arkitekt.slide_complete"
    /\ Last(events).name = "arkitekt.workflow_complete"

\* The events between two pipeline invocations that belong to run's loop
\* over the protocols.
BetweenInvocationsNames ==
    {"arkitekt.protocol_start", "opentrons.protocol_set",
     "arkitekt.protocol_complete", "arkitekt.workflow_complete"}

\* The last n elements of seq (all of them when it has fewer).
Tail_n(seq, n) ==
    SubSeq(seq, IF Len(seq) > n THEN Len(seq) - n + 1 ELSE 1, Len(seq))

\* own, the events of one pipeline invocation, are those of an invocation
\* that has returned: the slide was put back on the rack (non-final
\* protocol) or has its one terminal event and was moved to the dropoff
\* (final protocol), the gripper is open and the arm parked.
InvocationFinished(own) ==
    LET names == Names(own)
    IN  /\ CountNamed(own, {"robot.close_gripper"})
               = CountNamed(own, {"robot.open_gripper"})
        /\ CountNamed(own, {"opentrons.stain"}) = 1
        /\ IF own[1].is_final
           THEN /\ CountNamed(own, TerminalNames) = 1
                /\ \/ Tail_n(names, 4)
                          = <<"robot.move_image_processor_to_dropoff",
                              "robot.open_gripper", "robot.safety",
                              "arkitekt.slide_complete">>
                   \/ Tail_n(names, 3)
                          = <<"robot.move_microscope_to_dropoff",
                              "robot.open_gripper", "robot.safety">>
           ELSE Tail_n(names, 3)
                    = <<"robot.move_start", "robot.open_gripper",
                        "robot.safety">>

\* C20: run is at one place of the code at a time and every device call has
\* returned, its event in the stream, before the next is made; the stream
\* splits into the pipeline invocations, each from its slide_protocol_start
\* to the event before the next one: every event of an invocation that
\* names a slide names the invocation's slide, so the arm moves one slide at
\* a time, and when the next invocation starts with its pickup the one
\* before it has finished, its quality loop included.
C20_OneSlideAtATime ==
    LET starts == PositionsNamed(events, {"arkitekt.slide_protocol_start"})
        total == Len(events)
    IN  /\ Len(starts) <= Len(protocols) * Len(slide_ids)
        /\ \A i \in 1..Len(starts) :
               LET from == starts[i]
                   to == IF i < Len(starts) THEN starts[i + 1] - 1
                         ELSE total
                   own == SelectSeq(SubSeq(events, from, to),
                              LAMBDA e : e.name \notin BetweenInvocationsNames)
               IN  /\ \A j \in 1..Len(own) :
                          "slide" \in DOMAIN own[j] =>
                              own[j].slide = own[1].slide
                   /\ (i < Len(starts) \/ ~InPipeline \/ StartsInvocation)
                          => InvocationFinished(own)
                   /\ i < Len(starts) =>
                          Names(SubSeq(events, to + 1, to + 3))
                              = <<"arkitekt.slide_protocol_start",
                                  "robot.move_start", "robot.move_pickup">>

\* C20 witness: the first of two slides went through the whole quality
\* loop of a budget of two washes and was rejected; the second slide has
\* been picked up since and is in its own quality loop.
C20_Witness ==
    /\ slide_ids = <<1, 2>>
    /\ max_wash_loops = 2
    /\ slide.id = 2
    /\ pc = "evaluate"
    /\ CountNamed(events, {"opentrons.wash"}) = 2
    /\ Len(TerminalEventsOf(1)) = 1
    /\ TerminalEventsOf(1)[1].name = "arkitekt.slide_failed"

\* C21: a second run with the same protocols, slide ids, max_wash_loops and
\* slots, whose evaluator returns what it returned in the first run and
\* whose analyzer reports are the same, emits the events of the first run,
\* names and payloads: at every moment the events of the second run are the
\* first events of the first run, and all of them when the run has ended;
\* the evaluator was asked as often as in the first run.
C21_ReplayIsIdentical ==
    first_run # None =>
        LET first == first_run[1]
        IN  /\ Len(events) <= Len(first.events)
            /\ events = SubSeq(first.events, 1, Len(events))
            /\ Len(evaluations) <= Len(first.evaluations)
            /\ pc = "done" =>
                   /\ events = first.events
                   /\ evaluations = first.evaluations

\* C21 witness: the second run of two protocols over two slides, with a
\* wash and a rejection, has ended on the same Opentrons, which still held
\* the last protocol of the first run when the second run began.
C21_Witness ==
    /\ first_run # None
    /\ pc = "done"
    /\ Len(protocols) = 2
    /\ slide_ids = <<1, 2>>
    /\ events = first_run[1].events
    /\ CountNamed(events, {"opentrons.wash"}) >= 1
    /\ CountNamed(events, {"arkitekt.slide_failed"}) = 1
    /\ CountNamed(events, {"arkitekt.slide_complete"}) = 1

\* A pipeline invocation has just started: its Slide was made, the slide
\* picked up and stained, and nothing of the branch has been done.
InvocationJustStarted ==
    \/ pc = "return_to_rack"
    \/ pc = "quality_loop" /\ results = <<>>

\* C22: at the start of every pipeline invocation the Slide is a new one
\* for the slide id of the invocation, with loop_count 0 and is_ok None
\* (Unknown), whatever the Slide of the invocation before held; and a
\* non-final invocation leaves it so.
C22_FreshSlidePerInvocation ==
    /\ InvocationJustStarted =>
           /\ slide.id = slide_ids[slide_index]
           /\ slide.loop_count = 0
           /\ slide.is_ok = None
           /\ slide = Slide(slide_ids[slide_index])
    /\ protocol_index < Len(protocols) - 1 =>
           /\ slide.loop_count = 0
           /\ slide.is_ok = None

\* C22 witness: the first slide was washed twice and accepted; the
\* invocation of the second slide has just started.
C22_Witness ==
    /\ InvocationJustStarted
    /\ slide_ids = <<1, 2>>
    /\ slide_index = 2
    /\ slide.id = 2
    /\ is_final_protocol(protocol_index)
    /\ Len(TerminalEventsOf(1)) = 1
    /\ TerminalEventsOf(1)[1].loops = 2
    /\ TerminalEventsOf(1)[1].name = "arkitekt.slide_complete"

\* ------------------------------------------- the stations of the slides
\* The robot moves that carry a slide, with the stations they are named
\* after (models.py, Station).
CarryNames ==
    {"robot.move_rack_to_opentrons", "robot.move_opentrons_to_microscope",
     "robot.move_microscope_to_opentrons",
     "robot.move_microscope_to_image_processor",
     "robot.move_image_processor_to_dropoff",
     "robot.move_microscope_to_dropoff"}

Source(name) ==
    CASE name = "robot.move_rack_to_opentrons" -> "RACK"
      [] name = "robot.move_opentrons_to_microscope" -> "OPENTRONS"
      [] name = "robot.move_image_processor_to_dropoff" -> "IMAGE_PROCESSOR"
      [] name \in {"robot.move_microscope_to_opentrons",
                   "robot.move_microscope_to_image_processor",
                   "robot.move_microscope_to_dropoff"} -> "MICROSCOPE"

Destination(name) ==
    CASE name \in {"robot.move_rack_to_opentrons",
                   "robot.move_microscope_to_opentrons"} -> "OPENTRONS"
      [] name = "robot.move_opentrons_to_microscope" -> "MICROSCOPE"
      [] name = "robot.move_microscope_to_image_processor"
             -> "IMAGE_PROCESSOR"
      [] name \in {"robot.move_image_processor_to_dropoff",
                   "robot.move_microscope_to_dropoff"} -> "DROPOFF"

\* The i-th event of seq is the move to the start position made with the
\* gripper closed on the slide the arm went to in the Opentrons: the return
\* of that slide to the rack (_return_slide_to_rack, lines 130-134).
ReturnsToRack(seq, i) ==
    /\ seq[i].name = "robot.move_start"
    /\ i > 2
    /\ seq[i - 1].name = "robot.close_gripper"
    /\ seq[i - 2].name = "robot.move_idle_to_opentrons"

\* The moves of seq that carry a slide from a station to another, in order.
SlideMoves(seq) ==
    LET at == SelectSeq([i \in 1..Len(seq) |-> i],
                        LAMBDA i : \/ seq[i].name \in CarryNames
                                   \/ ReturnsToRack(seq, i))
    IN  [k \in 1..Len(at) |->
            IF seq[at[k]].name \in CarryNames
            THEN [slide |-> seq[at[k]].slide,
                  from |-> Source(seq[at[k]].name),
                  to |-> Destination(seq[at[k]].name),
                  at |-> at[k]]
            ELSE [slide |-> seq[at[k] - 2].slide,
                  from |-> "OPENTRONS", to |-> "RACK", at |-> at[k]]]

MovesOf(moves, id) == SelectSeq(moves, LAMBDA m : m.slide = id)

\* Where the moves have left a slide that was on the rack before them.
StationAfter(moves) ==
    IF moves = <<>> THEN "RACK" ELSE moves[Len(moves)].to

\* C23: when the pipeline invocation of a slide under a non-final protocol
\* has returned, the moves of the slide have left it on the rack; and every
\* pickup (a move rack -> opentrons) of a slide is made when the moves of
\* that slide so far have left it on the rack.
C23_BackAtRackForPickup ==
    LET all == SlideMoves(events)
    IN  /\ (pc = "slide_loop" /\ slide_index > 1
                /\ ~is_final_protocol(protocol_index)) =>
               StationAfter(MovesOf(all, slide_ids[slide_index - 1]))
                   = "RACK"
        /\ \A j \in 1..Len(slide_ids) :
               LET moves == MovesOf(all, slide_ids[j])
               IN  \A k \in 2..Len(moves) :
                       moves[k].from = "RACK" => moves[k - 1].to = "RACK"

\* What holds of the code: C23 for the runs whose slide ids are distinct.
C23_BackAtRackWhenDistinct == DistinctIds => C23_BackAtRackForPickup

\* What the code does with an id that is twice in the list: in the final
\* pass the id is picked up from the rack again after its moves have taken
\* it to the dropoff.
C23_PickedUpFromDropoff ==
    (slide_ids = <<1, 1>> /\ pc = "done") =>
        LET moves == MovesOf(SlideMoves(events), 1)
        IN  \E k \in 2..Len(moves) :
                /\ moves[k].from = "RACK"
                /\ moves[k - 1].to = "DROPOFF"

\* One turn of the quality loop, as the events of its moves and operations.
WashCycle ==
    <<"robot.move_opentrons_to_microscope", "microscope.evaluate",
      "robot.move_microscope_to_opentrons", "opentrons.wash">>

\* C24: in every pipeline invocation the moves between the Opentrons and the
\* microscope, the evaluations and the washes come in the order move to the
\* microscope, evaluate, move back to the Opentrons, wash, and again; an
\* evaluation that is NotOk while loop_count is below max_wash_loops is
\* followed by that move back and one wash, which adds exactly one to
\* loop_count; so loop_count is the number of washes of the invocation in
\* every state, at every evaluate call (the k-th evaluation follows k - 1
\* washes) and in the terminal event.
C24_WashStepOrder ==
    LET inv == Invocation
        turns == EventsNamed(inv, {WashCycle[c] : c \in 1..4})
        washes == CountNamed(turns, {"opentrons.wash"})
        terminal == EventsNamed(inv, TerminalNames)
    IN  /\ \A j \in 1..Len(turns) :
               /\ turns[j].name = WashCycle[((j - 1) % 4) + 1]
               /\ turns[j].slide = slide.id
        /\ slide.loop_count = washes
        /\ CountNamed(turns, {"microscope.evaluate"}) = Len(results)
        /\ \A r \in 1..Len(results) :
               (~results[r] /\ r - 1 < max_wash_loops) =>
                   \/ washes >= r
                   \/ pc = "wash" /\ r = Len(results) /\ washes = r - 1
        /\ pc = "evaluate" => Len(turns) = 4 * washes + 1
        /\ pc = "wash" => Len(turns) = 4 * washes + 2
        /\ \A i \in 1..Len(terminal) : terminal[i].loops = washes

\* C24 witness: NotOk, NotOk, Ok with a budget of two washes: the third
\* evaluation has been made after two washes, loop_count is 2.
C24_Witness ==
    /\ max_wash_loops = 2
    /\ results = <<FALSE, FALSE, TRUE>>
    /\ pc = "complete"
    /\ slide.loop_count = 2
    /\ CountNamed(Invocation, {"opentrons.wash"}) = 2
    /\ CountNamed(Invocation, {"robot.move_microscope_to_opentrons"}) = 2

\* C25: a pipeline invocation begins with slide_protocol_start, the pickup
\* (whose move rack -> opentrons is the fifth event) and then the stain, the
\* one stain of the invocation, for the same slide and protocol; what
\* follows the stain is the branch: for the final protocol the arm fetches
\* the slide and moves it to the microscope for the first evaluation, for a
\* non-final one it fetches the slide and returns it to the rack.
C25_PipelineStepOrder ==
    LET inv == Invocation
        names == Names(inv)
    IN  inv # <<>> =>
            /\ Len(inv) >= 8
            /\ SubSeq(names, 1, 8)
                   = <<"arkitekt.slide_protocol_start", "robot.move_start",
                       "robot.move_pickup", "robot.close_gripper",
                       "robot.move_rack_to_opentrons", "robot.open_gripper",
                       "robot.safety", "opentrons.stain">>
            /\ inv[5].slide = inv[1].slide
            /\ inv[8].slide = inv[1].slide
            /\ inv[8].protocol = inv[1].protocol
            /\ PositionsNamed(inv, {"robot.move_rack_to_opentrons"}) = <<5>>
            /\ PositionsNamed(inv, {"opentrons.stain"}) = <<8>>
            /\ Len(inv) = 8 <=> InvocationJustStarted
            /\ Len(inv) > 8 =>
                   /\ Len(inv) >= 13
                   /\ inv[9].slide = inv[1].slide
                   /\ SubSeq(names, 9, 12)
                          = IF inv[1].is_final
                            THEN <<"robot.move_idle_to_opentrons",
                                   "robot.close_gripper",
                                   "microscope.safety",
                                   "robot.move_opentrons_to_microscope">>
                            ELSE <<"robot.move_idle_to_opentrons",
                                   "robot.close_gripper",
                                   "robot.move_start",
                                   "robot.open_gripper">>
            /\ inv[1].is_final <=>
                   CountBefore({"arkitekt.protocol_complete"},
                               Len(events) - Len(inv) + 1)
                       = Len(protocols) - 1

\* C25 witness: a slide has been returned to the rack after its stain with
\* the first of two protocols.
C25_Witness ==
    /\ Len(protocols) = 2
    /\ protocol_index = 0
    /\ pc = "slide_loop"
    /\ slide_index = 2
    /\ Len(Invocation) = 13
    /\ Invocation[8].name = "opentrons.stain"
    /\ Invocation[11].name = "robot.move_start"

\* C26: when nothing raises and every call returns, run comes to its end
\* whatever the evaluator returns: from some moment on the stream holds
\* workflow_complete, exactly once, and run has returned; and the stream
\* never holds it twice.
C26_EventuallyWorkflowComplete ==
    /\ <>[](/\ pc = "done"
            /\ CountNamed(events, {"arkitekt.workflow_complete"}) = 1)
    /\ [](CountNamed(events, {"arkitekt.workflow_complete"}) <= 1)

\* C26 witness: a run of two slides that used the whole budget of two
\* washes for both of them has ended with its one workflow_complete.
C26_Witness ==
    /\ pc = "done"
    /\ max_wash_loops = 2
    /\ Len(slide_ids) = 2
    /\ CountNamed(events, {"opentrons.wash"}) = 4
    /\ CountNamed(events, {"arkitekt.workflow_complete"}) = 1

GripperNames == {"robot.close_gripper", "robot.open_gripper"}

\* C27: among the gripper calls and the moves that carry a slide, a
\* close_gripper is the first one or follows an open_gripper, an
\* open_gripper follows a close_gripper or a carrying move, and a carrying
\* move follows a close_gripper or another carrying move: the gripper calls
\* alternate, beginning with close_gripper, and every carrying move is made
\* with the gripper closed.  The gripper is open whenever run is between
\* two steps of a pipeline, and so when an invocation has ended.
C27_GripperAlternates ==
    LET trace == Names(EventsNamed(events, GripperNames \cup CarryNames))
        grips == CountNamed(events, GripperNames)
    IN  /\ \A j \in 1..Len(trace) :
               CASE trace[j] = "robot.close_gripper" ->
                        j = 1 \/ trace[j - 1] = "robot.open_gripper"
                 [] trace[j] = "robot.open_gripper" ->
                        j > 1 /\ trace[j - 1] # "robot.open_gripper"
                 [] OTHER ->
                        j > 1 /\ trace[j - 1] # "robot.open_gripper"
        /\ trace # <<>> => Last(trace) = "robot.open_gripper"
        /\ grips % 2 = 0
        /\ CountNamed(events, {"robot.close_gripper"}) * 2 = grips

\* C27 witness: a slide was accepted after a wash: its invocation has ended
\* after six closings and six openings of the gripper and six carrying
\* moves.
C27_Witness ==
    /\ PipelineExited
    /\ Len(protocols) = 1
    /\ slide_index = 2
    /\ results = <<FALSE, TRUE>>
    /\ CountNamed(events, {"robot.close_gripper"}) = 6
    /\ CountNamed(events, {"robot.open_gripper"}) = 6
    /\ CountNamed(events, CarryNames) = 6

\* The events of the operations of the other devices on a slide: stain,
\* wash, evaluate, scan_slide, and process_slide with the analyses it runs.
DeviceOperationNames ==
    {"opentrons.stain", "opentrons.wash", "microscope.evaluate",
     "microscope.scan", "image_processor.start_processing",
     "image_processor.analyze_antibodies", "image_processor.antibody_results",
     "image_processor.identify_cancer", "image_processor.cancer_results",
     "image_processor.generate_report", "image_processor.report_complete",
     "image_processor.processing_complete"}

\* C28: among the robot calls and the operations of the other devices, an
\* operation follows a move_safety or another operation, and a move_safety
\* follows an open_gripper: when stain, wash, evaluate, scan_slide or
\* process_slide is called the latest robot call is move_safety and the
\* latest gripper call before it open_gripper, so the arm is parked and
\* holds no slide.
C28_ArmParkedAtOperations ==
    LET trace == Names(EventsNamed(events,
                                   RobotCalls \cup DeviceOperationNames))
    IN  \A j \in 1..Len(trace) :
            /\ trace[j] \in DeviceOperationNames =>
                   /\ j > 1
                   /\ trace[j - 1] \in DeviceOperationNames
                                           \cup {"robot.safety"}
            /\ trace[j] = "robot.safety" =>
                   /\ j > 1
                   /\ trace[j - 1] = "robot.open_gripper"

\* C28 witness: a run in which each of the five operations was called: a
\* slide was stained, evaluated, washed, scanned and analysed.
C28_Witness ==
    /\ pc = "done"
    /\ Len(slide_ids) = 1
    /\ CountNamed(events, {"opentrons.stain"}) = 1
    /\ CountNamed(events, {"opentrons.wash"}) = 1
    /\ CountNamed(events, {"microscope.evaluate"}) = 2
    /\ CountNamed(events, {"microscope.scan"}) = 1
    /\ CountNamed(events, {"image_processor.start_processing"}) = 1

\* The robot moves that end at the microscope and those that leave it.
ToMicroscopeNames ==
    {"robot.move_opentrons_to_microscope", "robot.move_idle_to_microscope"}

FromMicroscopeNames ==
    {"robot.move_microscope_to_opentrons",
     "robot.move_microscope_to_image_processor",
     "robot.move_microscope_to_dropoff"}

\* C29: among the calls of the microscope and the robot moves to and from
\* it, a move to the microscope (from the Opentrons with the slide, or from
\* idle to fetch it) follows a microscope.safety directly, and a move that
\* leaves the microscope follows the move from idle that fetched the slide:
\* each of these moves has a microscope.safety before it with no evaluate
\* and no scan_slide between the two.
C29_MicroscopeSafeBeforeMoves ==
    LET trace == Names(EventsNamed(events,
                     {"microscope.safety", "microscope.evaluate",
                      "microscope.scan"}
                         \cup ToMicroscopeNames \cup FromMicroscopeNames))
    IN  \A j \in 1..Len(trace) :
            /\ trace[j] \in ToMicroscopeNames =>
                   /\ j > 1
                   /\ trace[j - 1] = "microscope.safety"
            /\ trace[j] \in FromMicroscopeNames =>
                   /\ j > 2
                   /\ trace[j - 1] = "robot.move_idle_to_microscope"
                   /\ trace[j - 2] = "microscope.safety"

\* C29 witness: a run in which every kind of move to and from the
\* microscope was made: a slide was washed and accepted, another rejected.
C29_Witness ==
    /\ pc = "done"
    /\ CountNamed(events, {"robot.move_microscope_to_opentrons"}) >= 1
    /\ CountNamed(events, {"robot.move_microscope_to_image_processor"}) = 1
    /\ CountNamed(events, {"robot.move_microscope_to_dropoff"}) = 1
    /\ CountNamed(events, {"robot.move_opentrons_to_microscope"}) >= 3
    /\ CountNamed(events, {"microscope.safety"})
           = CountNamed(events, {"robot.move_opentrons_to_microscope"})
                 + CountNamed(events, {"robot.move_idle_to_microscope"})

\* The station of the device that an operation on a slide belongs to.
OperationStation(name) ==
    CASE name \in {"opentrons.stain", "opentrons.wash"} -> "OPENTRONS"
      [] name \in {"microscope.evaluate", "microscope.scan"} -> "MICROSCOPE"
      [] name = "image_processor.start_processing" -> "IMAGE_PROCESSOR"

\* The moves that carry a slide and the operations on a slide, in the order
\* of seq: a move is from its source to its destination, an operation is at
\* the station of its device and leaves the slide there.
SlideTrack(seq) ==
    LET at == SelectSeq([i \in 1..Len(seq) |-> i],
                        LAMBDA i : \/ seq[i].name \in CarryNames
                                   \/ seq[i].name \in
                                          {"opentrons.stain", "opentrons.wash",
                                           "microscope.evaluate",
                                           "microscope.scan",
                                           "image_processor.start_processing"}
                                   \/ ReturnsToRack(seq, i))
    IN  [k \in 1..Len(at) |->
            IF seq[at[k]].name \in CarryNames
            THEN [slide |-> seq[at[k]].slide,
                  from |-> Source(seq[at[k]].name),
                  to |-> Destination(seq[at[k]].name)]
            ELSE IF seq[at[k]].name = "robot.move_start"
            THEN [slide |-> seq[at[k] - 2].slide,
                  from |-> "OPENTRONS", to |-> "RACK"]
            ELSE [slide |-> seq[at[k]].slide,
                  from |-> OperationStation(seq[at[k]].name),
                  to |-> OperationStation(seq[at[k]].name)]]

\* C30: with the station of each slide tracked from the robot moves (the
\* rack before the first one), every stain and wash is applied to a slide
\* that is at the Opentrons, every evaluate and scan_slide to a slide at the
\* microscope, every process_slide to a slide at the image processor, and
\* every move that carries a slide starts at the station the slide is at.
C30_OperationsAtStation ==
    LET all == SlideTrack(events)
    IN  \A j \in 1..Len(slide_ids) :
            LET track == MovesOf(all, slide_ids[j])
            IN  \A k \in 1..Len(track) :
                    track[k].from = IF k = 1 THEN "RACK" ELSE track[k - 1].to

\* What holds of the code: C30 for the runs whose slide ids are distinct.
C30_OperationsAtStationWhenDistinct == DistinctIds => C30_OperationsAtStation

\* Distinct ids, a slide stained under a non-final protocol and brought back,
\* then stained again, washed, evaluated twice, scanned and processed.
C30_DistinctWitness ==
    /\ pc = "done" /\ DistinctIds /\ Len(protocols) = 2
    /\ LET track == MovesOf(SlideTrack(events), slide_ids[1])
       IN  /\ Len(track) = 15
           /\ track[3].to = "RACK"
           /\ track[Len(track)].to = "DROPOFF"
           /\ \E k \in 1..Len(track) : track[k].from = "IMAGE_PROCESSOR"

\* The decisions in a call trace: the stain, evaluate and wash calls with
\* their slide, and the terminal events as "accepted" (slide_complete,
\* slide_done) or "rejected" (slide_failed, failed_quality) with their slide
\* and loops value.
Decisions(seq) ==
    LET at == EventsNamed(seq, {"opentrons.stain", "microscope.evaluate",
                                "opentrons.wash", "arkitekt.slide_complete",
                                "arkitekt.slide_done", "arkitekt.slide_failed",
                                "arkitekt.failed_quality"})
    IN  [k \in 1..Len(at) |->
            IF at[k].name \in {"arkitekt.slide_complete", "arkitekt.slide_done"}
            THEN [name |-> "accepted", slide |-> at[k].slide,
                  loops |-> Some(at[k].loops)]
            ELSE IF at[k].name \in {"arkitekt.slide_failed",
                                    "arkitekt.failed_quality"}
            THEN [name |-> "rejected", slide |-> at[k].slide,
                  loops |-> Some(at[k].loops)]
            ELSE [name |-> at[k].name, slide |-> at[k].slide,
                  loops |-> None]]

\* The number of washes since the latest stain of a sequence of decisions.
WashesSinceStain(decisions) ==
    LET stains == PositionsNamed(decisions, {"opentrons.stain"})
    IN  IF stains = <<>> THEN 0
        ELSE CountNamed(SubSeq(decisions, Last(stains), Len(decisions)),
                        {"opentrons.wash"})

\* C31: with a single protocol, the legacy orchestrator run on the same slide
\* ids and max_wash_loops with the same evaluate results makes, at every
\* step, the decisions the new orchestrator made: its stain, evaluate and
\* wash calls and terminal outcomes (with their slides and loops values) so
\* far are the first ones of the new run, all of them once it has returned,
\* and its loop_count is the number of washes since the stain at that step,
\* as it was in the new run.
C31_LegacyMakesSameDecisions ==
    (first_run # None /\ Len(protocols) = 1) =>
        LET new == Decisions(first_run[1].events)
            old == Decisions(events)
        IN  /\ Len(old) <= Len(new)
            /\ old = SubSeq(new, 1, Len(old))
            /\ pc = "legacy_done" => old = new
            /\ pc \in {"legacy_quality_loop", "legacy_evaluate",
                       "legacy_done_slide", "legacy_failed", "legacy_wash"}
                   => slide.loop_count = WashesSinceStain(old)

\* C31 witness: both orchestrators have returned; of two slides one was
\* rejected and one accepted after a wash.
C31_Witness ==
    /\ pc = "legacy_done" /\ Len(protocols) = 1 /\ Len(slide_ids) = 2
    /\ CountNamed(events, {"arkitekt.slide_done"}) = 1
    /\ CountNamed(events, {"arkitekt.failed_quality"}) = 1
    /\ CountNamed(events, {"opentrons.wash"}) >= 2
    /\ CountNamed(first_run[1].events, {"arkitekt.slide_complete"}) = 1
    /\ CountNamed(first_run[1].events, {"arkitekt.slide_failed"}) = 1

\* C32: with max_wash_loops <= 0 no wash is ever called; in the final pass
\* every evaluate is the first call after the start of its invocation and
\* every terminal event follows that one evaluate directly, so a slide is
\* evaluated exactly once; the k-th terminal event is slide_complete if the
\* k-th evaluate returned Ok and slide_failed otherwise, with loops = 0; and
\* when run has returned every slide id had its evaluate.
C32_NoWashWithoutBudget ==
    max_wash_loops <= 0 =>
        LET trace == EventsNamed(events,
                         {"arkitekt.slide_protocol_start",
                          "microscope.evaluate"} \cup TerminalNames)
            terminals == EventsNamed(trace, TerminalNames)
        IN  /\ CountNamed(events, {"opentrons.wash"}) = 0
            /\ \A j \in 1..Len(trace) :
                   /\ trace[j].name = "microscope.evaluate" =>
                          /\ j > 1
                          /\ trace[j - 1].name = "arkitekt.slide_protocol_start"
                          /\ trace[j - 1].is_final
                          /\ trace[j - 1].slide = trace[j].slide
                   /\ trace[j].name \in TerminalNames =>
                          /\ j > 1
                          /\ trace[j - 1].name = "microscope.evaluate"
                          /\ trace[j - 1].slide = trace[j].slide
                          /\ trace[j].loops = 0
            /\ Len(terminals) <= Len(evaluations)
            /\ \A k \in 1..Len(terminals) :
                   terminals[k].name = IF evaluations[k]
                                       THEN "arkitekt.slide_complete"
                                       ELSE "arkitekt.slide_failed"
            /\ pc = "done" =>
                   /\ Len(evaluations) = Len(slide_ids)
                   /\ Len(terminals) = Len(slide_ids)

\* C32 witness: a finished run with a negative max_wash_loops and two
\* protocols, in which one slide was accepted and the other one rejected.
C32_Witness ==
    /\ pc = "done" /\ max_wash_loops < 0 /\ Len(protocols) = 2
    /\ evaluations = <<FALSE, TRUE>>
    /\ CountNamed(events, {"arkitekt.slide_failed"}) = 1
    /\ CountNamed(events, {"arkitekt.slide_complete"}) = 1

\* C32 witness for max_wash_loops = 0: the only slide was rejected.
C32_ZeroWitness ==
    /\ pc = "done" /\ max_wash_loops = 0
    /\ evaluations = <<FALSE>>
    /\ CountNamed(events, {"arkitekt.slide_failed"}) = 1

\* C33: every wash is called in the final protocol pass (after the
\* protocol_start of the last protocol index, and with run in that pass when
\* _wash_slide is about to be called) with the liquid handler's
\* current_protocol being the last protocol of the list, which the wash
\* event reports; and with max_wash_loops >= 0 the washes of a run are at
\* most (number of slide ids) x max_wash_loops.
C33_WashesInFinalPassBounded ==
    LET washes == PositionsNamed(events, {"opentrons.wash"})
        starts == PositionsNamed(events, {"arkitekt.protocol_start"})
    IN  /\ pc = "wash" =>
               /\ protocol_index = Len(protocols) - 1
               /\ current_protocol = protocols[Len(protocols)]
        /\ washes # <<>> =>
               /\ Len(starts) = Len(protocols)
               /\ events[Last(starts)].protocol_index = Len(protocols) - 1
               /\ washes[1] > Last(starts)
        /\ \A k \in 1..Len(washes) :
               events[washes[k]].protocol = protocols[Len(protocols)]
        /\ max_wash_loops >= 0 =>
               Len(washes) <= Len(slide_ids) * max_wash_loops

\* C33 witness: a finished run of two protocols and two slides in which both
\* slides used the whole budget of two washes, all in the second pass.
C33_Witness ==
    /\ pc = "done" /\ Len(protocols) = 2 /\ Len(slide_ids) = 2
    /\ protocols[1] # protocols[2]
    /\ max_wash_loops = 2
    /\ CountNamed(events, {"opentrons.wash"}) = 4

====
